---- MODULE Spec2Model ----
(***************************************************************************)
(* Model of tokenx (src/src/index.ts): the approximate tokenizer           *)
(* (approximateTokenChunks), the chunker (chunkByMaxTokens) and the model  *)
(* context-size lookup (resolveModelName, getModelContextSize).            *)
(*                                                                         *)
(* A text is a sequence of characters.  A character is a string naming it: *)
(* an ASCII character stands for itself, any other is named by its code    *)
(* point ("U+00FC").  The regular expressions of the source are character  *)
(* classes, modelled as sets of characters.                                *)
(***************************************************************************)
EXTENDS Integers, Sequences, FiniteSets, TLC

\* ------------------------------------------------------------------ bounds
\* Longest enumerated input of chunkByMaxTokens, in characters.
MaxLen == 6
\* Largest enumerated maxTokens.
MaxTokens == 3
\* Largest enumerated overlap.
MaxOverlap == 2
\* Longest enumerated input of approximateTokenChunks, in characters.
MaxEstLen == 4

\* ------------------------------------------------------- character classes
\* \s of WHITESPACE_RE and of the split pattern.
WhitespaceChars == {" ", "U+000A"}
\* \d
DigitChars == {"0", "1", "2", "3", "4", "5", "6", "7", "8", "9"}
\* a-zA-Z, as far as the enumerated and the fixture texts use them.
AsciiLetterChars ==
    {"a", "b", "c", "d", "e", "h", "i", "l", "n", "o", "r", "s", "t", "w",
     "H", "T"}
\* U+00C0-U+00D6, U+00D8-U+00F6, U+00F8-U+00FF: U+00E4 a-umlaut, U+00F6
\* o-umlaut, U+00FC u-umlaut, U+00DF sharp s, U+00E9 e-acute.
Latin1LetterChars == {"U+00E4", "U+00F6", "U+00FC", "U+00DF", "U+00E9"}
\* The class of CJK_RE: U+4E2D and U+6587 (CJK Unified Ideographs), U+30A2
\* (Katakana), U+D55C (Hangul syllable).
CjkChars == {"U+4E2D", "U+6587", "U+30A2", "U+D55C"}
\* The class of NUMERIC_SEQUENCE_RE, [\d.,]
NumericChars == DigitChars \cup {".", ","}
\* The class of PUNCTUATION_RE and of the split pattern (U+0022 is the double
\* quote, U+005C the backslash, U+0060 the backtick).
PunctuationChars ==
    {".", ",", "!", "?", ";", "'", "U+0022", "U+201E", "U+201C", "U+201D",
     "U+2018", "U+2019", "-", "(", ")", "{", "}", "[", "]", "<", ">", ":",
     "/", "U+005C", "|", "@", "#", "$", "%", "^", "&", "*", "+", "=",
     "U+0060", "~"}
\* The class of ALPHANUMERIC_RE.
AlphanumericChars == AsciiLetterChars \cup DigitChars \cup Latin1LetterChars
\* The class of LANGUAGE_METRICS[0].regex: the umlauts, the sharp s and, by
\* the i flag, their capitals (U+1E9E is the capital sharp s).
GermanChars ==
    {"U+00E4", "U+00F6", "U+00FC", "U+00DF", "U+1E9E", "U+00C4", "U+00D6",
     "U+00DC"}
\* Characters outside the Basic Multilingual Plane: two UTF-16 code units.
AstralChars == {"U+1F600"}

DEFAULT_AVERAGE_CHARS_PER_TOKEN == 6
GermanAverageCharsPerToken == 3

\* ------------------------------------------------------------ string helpers
\* String.prototype.length: the number of UTF-16 code units.
RECURSIVE Length(_)
Length(s) ==
    IF s = <<>> THEN 0
    ELSE (IF Head(s) \in AstralChars THEN 2 ELSE 1) + Length(Tail(s))

\* Array.from(s).length: the number of code points.
CodePoints(s) == Len(s)

\* Math.ceil(a / b) for a >= 0, b > 0.
Ceil(a, b) == (a + b - 1) \div b

\* regex.test(s) for an unanchored one-character class.
ContainsAny(s, class) == \E j \in 1..Len(s) : s[j] \in class
\* regex.test(s) for ^[class]+$.
AllIn(s, class) == Len(s) > 0 /\ \A j \in 1..Len(s) : s[j] \in class

\* Array.prototype.join of a sequence of strings.
RECURSIVE Join(_)
Join(ss) == IF ss = <<>> THEN <<>> ELSE Head(ss) \o Join(Tail(ss))

RECURSIVE Sum(_)
Sum(ns) == IF ns = <<>> THEN 0 ELSE Head(ns) + Sum(Tail(ns))

\* All sequences over S of length at most n.
BoundedSeq(S, n) == UNION {[1..m -> S] : m \in 0..n}

\* ---------------------------------------------------------------- segmenter
\* The end (exclusive) of the run of characters of `class` that starts at q.
RECURSIVE RunEnd(_, _, _)
RunEnd(s, q, class) ==
    IF q <= Len(s) /\ s[q] \in class THEN RunEnd(s, q + 1, class) ELSE q

\* The split pattern (\s+|[punctuation]+) matched at position q exactly: the
\* end (exclusive) of the match, or q when it does not match there.  The
\* alternatives are tried in order and each is greedy.
MatchEnd(s, q) ==
    IF s[q] \in WhitespaceChars THEN RunEnd(s, q, WhitespaceChars)
    ELSE IF s[q] \in PunctuationChars THEN RunEnd(s, q, PunctuationChars)
    ELSE q

\* String.prototype.split with a pattern that has one capturing group: p is
\* the start of the piece being collected, q the position the pattern is tried
\* at, A the pieces so far.  A match pushes the text before it and the group.
RECURSIVE SplitLoop(_, _, _, _)
SplitLoop(s, p, q, A) ==
    IF q > Len(s) THEN Append(A, SubSeq(s, p, Len(s)))
    ELSE LET e == MatchEnd(s, q) IN
         IF e = q THEN SplitLoop(s, p, q + 1, A)
         ELSE SplitLoop(s, e, e, A \o <<SubSeq(s, p, q - 1), SubSeq(s, q, e - 1)>>)

Split(s) == IF s = <<>> THEN <<s>> ELSE SplitLoop(s, 1, 1, <<>>)

\* RoughTokens with a split pattern that has no capturing group: the matched
\* separators (the pieces at the even positions) are not kept.
RoughTokensWithoutSeparators(s) ==
    LET A == Split(s) IN
    SelectSeq([j \in 1..((Len(A) + 1) \div 2) |-> A[2 * j - 1]], LAMBDA t : t # <<>>)

\* input.split(...).filter(Boolean): the empty pieces are dropped.
RoughTokens(s) == SelectSeq(Split(s), LAMBDA t : t # <<>>)

\* ---------------------------------------------------------------- estimator
\* The first language metric whose class the token touches, or 0 (undefined).
AverageCharsPerToken(token) ==
    IF ContainsAny(token, GermanChars) THEN GermanAverageCharsPerToken ELSE 0

NumericSequenceTest(token) == ContainsAny(token, NumericChars)

\* The count of one rough token: the if / else-if chain, first match wins.
TokenCountOf(token) ==
    LET avg == AverageCharsPerToken(token) IN
    IF AllIn(token, WhitespaceChars) THEN 0
    ELSE IF ContainsAny(token, CjkChars) THEN CodePoints(token)
    ELSE IF NumericSequenceTest(token) THEN 1
    ELSE IF Length(token) <= 3 THEN 1
    ELSE IF ContainsAny(token, PunctuationChars)
         THEN (IF Length(token) > 1 THEN Ceil(Length(token), 2) ELSE 1)
    ELSE IF AllIn(token, AlphanumericChars) \/ avg # 0
         THEN Ceil(Length(token),
                   IF avg # 0 THEN avg ELSE DEFAULT_AVERAGE_CHARS_PER_TOKEN)
    ELSE CodePoints(token)

\* approximateTokenChunks: one {token, count} per rough token, in order.
ApproximateTokenChunks(s) ==
    LET rough == RoughTokens(s) IN
    [j \in 1..Len(rough) |-> [token |-> rough[j], count |-> TokenCountOf(rough[j])]]

\* ------------------------------------------------------------------ chunker
\* A chunk is a sequence of positions in `counts`: the chunk arrays of the
\* source hold references to the TokenCount objects of `counts`.

Min(a, b) == IF a <= b THEN a ELSE b
Max(a, b) == IF a >= b THEN a ELSE b
Last(q) == q[Len(q)]

\* The sum of the counts of the pairs of a chunk.
ChunkTotal(cs, ch) == Sum([j \in 1..Len(ch) |-> cs[ch[j]].count])

\* Exceeds with the incoming pair's count left out of the comparison.
ExceedsIgnoringToken(cnt, c, m) == cnt > m

\* count + token.count > maxTokens
Exceeds(cnt, c, m) == cnt + c > m

\* while (i-- && count < overlap) count += chunk[i].count, from the values of
\* i and count before the test; i is the source's 0-based index.  The result
\* holds i and count after the loop, or thrown when chunk[i] is undefined and
\* reading its count raises a TypeError.
RECURSIVE Walk(_, _, _, _, _)
Walk(cs, ch, i, cnt, ov) ==
    IF i = 0 THEN [i |-> i - 1, count |-> cnt, thrown |-> FALSE]
    ELSE IF ~(cnt < ov) THEN [i |-> i - 1, count |-> cnt, thrown |-> FALSE]
    ELSE IF (i - 1) \notin 0..(Len(ch) - 1)
         THEN [i |-> i - 1, count |-> cnt, thrown |-> TRUE]
    ELSE Walk(cs, ch, i - 1, cnt + cs[ch[(i - 1) + 1]].count, ov)

\* Array.prototype.slice(start): a negative start counts from the end.
Slice(ch, start) ==
    LET n == Len(ch)
        from == IF start < 0 THEN Max(n + start, 0) ELSE Min(start, n)
    IN  SubSeq(ch, from + 1, n)

\* One iteration of the for..of loop on the pair at position t of cs, from
\* the loop state st = [chunks, chunk, count, thrown].
LoopBody(cs, m, ov, st, t) ==
    LET c == cs[t].count
        pushed == Append(st.chunks, st.chunk)
        w == Walk(cs, st.chunk, Len(st.chunk) - 1, 0, ov)
    IN  IF ~Exceeds(st.count, c, m)
        THEN [st EXCEPT !.chunk = Append(@, t), !.count = @ + c]
        ELSE IF ov > 0
        THEN IF w.thrown
             THEN [chunks |-> pushed, chunk |-> st.chunk, count |-> w.count,
                   thrown |-> TRUE]
             ELSE [chunks |-> pushed, chunk |-> Append(Slice(st.chunk, w.i), t),
                   count |-> w.count + c, thrown |-> FALSE]
        ELSE [chunks |-> pushed, chunk |-> <<t>>, count |-> c, thrown |-> FALSE]

\* FinalChunks without the push of the last running chunk.
FinalChunksWithoutLast(chs, ch) == chs

\* if (chunk.length > 0) chunks.push(chunk)
FinalChunks(chs, ch) == IF Len(ch) > 0 THEN Append(chs, ch) ELSE chs

\* chunks.map(chunk => chunk.map(({ token }) => token).join(''))
Materialize(cs, chs) ==
    [j \in 1..Len(chs) |->
        Join([x \in 1..Len(chs[j]) |-> cs[chs[j][x]].token])]

\* The loop state before the first iteration.
LoopStart == [chunks |-> <<>>, chunk |-> <<>>, count |-> 0, thrown |-> FALSE]

\* The loop run from position t to the end of cs, or to the throw.
RECURSIVE RunLoop(_, _, _, _, _)
RunLoop(cs, m, ov, st, t) ==
    IF st.thrown \/ t > Len(cs) THEN st
    ELSE RunLoop(cs, m, ov, LoopBody(cs, m, ov, st, t), t + 1)

\* chunkByMaxTokens as a function: whether it threw, and the chunks it
\* returns (as sequences of positions) when it did not.
ChunkByMaxTokens(s, m, ov) ==
    LET cs == ApproximateTokenChunks(s)
        st == RunLoop(cs, m, ov, LoopStart, 1)
    IN  [thrown |-> st.thrown,
         chunks |-> IF st.thrown THEN <<>> ELSE FinalChunks(st.chunks, st.chunk)]

\* ------------------------------------------------------------ state machine
VARIABLES
    pc,            \* where the running call is
    input,         \* the text argument
    maxTokens,     \* chunkByMaxTokens: maxTokens
    overlap,       \* chunkByMaxTokens: overlap
    counts,        \* chunkByMaxTokens: counts
    next,          \* chunkByMaxTokens: position of the for..of iterator
    chunks,        \* chunkByMaxTokens: chunks
    chunk,         \* chunkByMaxTokens: chunk
    count,         \* chunkByMaxTokens: count
    result,        \* chunkByMaxTokens: the returned strings
    roughTokens,   \* approximateTokenChunks: roughTokens
    tokenCounts,   \* approximateTokenChunks: tokenCounts
    modelName,     \* getModelContextSize: modelName
    modelKey,      \* getModelContextSize: modelKey
    contextSize    \* getModelContextSize: the returned number

chunkerVars == <<input, maxTokens, overlap, counts, next, chunks, chunk, count, result>>
estimatorVars == <<roughTokens, tokenCounts>>
lookupVars == <<modelName, modelKey, contextSize>>
vars == <<pc, chunkerVars, estimatorVars, lookupVars>>

\* The values of the variables a call does not use.
ChunkerIdle ==
    /\ maxTokens = 1 /\ overlap = 0 /\ counts = <<>> /\ next = 0
    /\ chunks = <<>> /\ chunk = <<>> /\ count = 0 /\ result = <<>>
EstimatorIdle == roughTokens = <<>> /\ tokenCounts = <<>>
LookupIdle == modelName = <<>> /\ modelKey = <<>> /\ contextSize = 0

\* ------------------------------------------------- chunkByMaxTokens, stepwise
\* The characters the enumerated inputs of chunkByMaxTokens are made of: a
\* letter, a space, a punctuation mark and a CJK ideograph.
ChunkerAlphabet == {"a", " ", "!", "U+4E2D"}

\* The input of the tests of chunkByMaxTokens on short English text.
ShortEnglishText ==
    <<"H", "e", "l", "l", "o", ",", " ", "w", "o", "r", "l", "d", "!",
      " ", "T", "h", "i", "s", " ", "i", "s", " ", "a", " ", "s", "h",
      "o", "r", "t", " ", "s", "e", "n", "t", "e", "n", "c", "e",
      ".">>

ChunkerTexts == BoundedSeq(ChunkerAlphabet, MaxLen) \cup {ShortEnglishText}

ChunkerInit ==
    /\ pc = "chunk_call"
    /\ input \in ChunkerTexts
    /\ maxTokens \in 1..MaxTokens
    /\ overlap \in 0..MaxOverlap
    /\ counts = <<>> /\ next = 0
    /\ chunks = <<>> /\ chunk = <<>> /\ count = 0 /\ result = <<>>
    /\ EstimatorIdle /\ LookupIdle

\* const counts = approximateTokenChunks(input); chunks = []; chunk = [];
\* count = 0
ChunkCall ==
    /\ pc = "chunk_call"
    /\ counts' = ApproximateTokenChunks(input)
    /\ next' = 1
    /\ chunks' = LoopStart.chunks
    /\ chunk' = LoopStart.chunk
    /\ count' = LoopStart.count
    /\ pc' = "chunk_loop"
    /\ UNCHANGED <<input, maxTokens, overlap, result, estimatorVars, lookupVars>>

LoopState == [chunks |-> chunks, chunk |-> chunk, count |-> count, thrown |-> FALSE]

\* One iteration of the loop, whichever branch it takes.
Iteration(st) ==
    /\ chunks' = st.chunks
    /\ chunk' = st.chunk
    /\ count' = st.count
    /\ next' = next + 1
    /\ pc' = IF st.thrown THEN "chunk_thrown" ELSE "chunk_loop"
    /\ UNCHANGED <<input, maxTokens, overlap, counts, result, estimatorVars, lookupVars>>

\* An iteration whose pair fits: the pair joins the running chunk.
ChunkKeep ==
    /\ pc = "chunk_loop" /\ next <= Len(counts)
    /\ ~Exceeds(count, counts[next].count, maxTokens)
    /\ Iteration(LoopBody(counts, maxTokens, overlap, LoopState, next))

\* An iteration whose pair does not fit: the running chunk is pushed and a
\* new one started.
ChunkFlush ==
    /\ pc = "chunk_loop" /\ next <= Len(counts)
    /\ Exceeds(count, counts[next].count, maxTokens)
    /\ LET st == LoopBody(counts, maxTokens, overlap, LoopState, next) IN
       /\ ~st.thrown
       /\ Iteration(st)

\* An iteration whose backward walk reads a pair that is not there.
ChunkThrow ==
    /\ pc = "chunk_loop" /\ next <= Len(counts)
    /\ Exceeds(count, counts[next].count, maxTokens)
    /\ LET st == LoopBody(counts, maxTokens, overlap, LoopState, next) IN
       /\ st.thrown
       /\ Iteration(st)

\* The loop is over: the last chunk is pushed and the strings are returned.
ChunkReturn ==
    /\ pc = "chunk_loop" /\ next > Len(counts)
    /\ chunks' = FinalChunks(chunks, chunk)
    /\ result' = Materialize(counts, chunks')
    /\ pc' = "chunk_returned"
    /\ UNCHANGED <<input, maxTokens, overlap, counts, next, chunk, count,
                   estimatorVars, lookupVars>>

ChunkerNext == ChunkCall \/ ChunkKeep \/ ChunkFlush \/ ChunkThrow \/ ChunkReturn

Spec == ChunkerInit /\ [][ChunkerNext]_vars

\* ------------------------------------------------- claims on chunkByMaxTokens
Range(q) == {q[j] : j \in 1..Len(q)}

\* A chunk that consists of exactly one pair whose own count exceeds maxTokens.
SingleOversized(ch) == Len(ch) = 1 /\ counts[ch[1]].count > maxTokens

WithinBudget(ch) == ChunkTotal(counts, ch) <= maxTokens \/ SingleOversized(ch)

\* C1 as stated: for every overlap >= 0, each returned chunk totals at most
\* maxTokens, except a chunk of exactly one pair whose count exceeds maxTokens.
C1_ChunkBudgetAnyOverlap ==
    pc = "chunk_returned" => \A j \in 1..Len(chunks) : WithinBudget(chunks[j])

\* C1 amended: with overlap = 0, each returned chunk totals at most maxTokens,
\* except a chunk of exactly one pair whose count exceeds maxTokens.
C1_ChunkBudgetNoOverlap ==
    pc = "chunk_returned" /\ overlap = 0
        => \A j \in 1..Len(chunks) : WithinBudget(chunks[j])

\* A call with overlap = 0 has returned a chunk of one oversized pair and a
\* chunk of several pairs that fills the budget exactly.
C1_Witness ==
    /\ pc = "chunk_returned" /\ overlap = 0
    /\ \E j \in 1..Len(chunks) : SingleOversized(chunks[j])
    /\ \E j \in 1..Len(chunks) :
          /\ Cardinality({x \in 1..Len(chunks[j]) : counts[chunks[j][x]].count > 0}) >= 2
          /\ ChunkTotal(counts, chunks[j]) = maxTokens

\* C3: chunkByMaxTokens never raises an error.
C3_NeverThrows == pc # "chunk_thrown"

\* C4: no chunk pushed by chunkByMaxTokens is empty, and no returned string is
\* the empty string.
C4_NoEmptyChunk ==
    /\ \A j \in 1..Len(chunks) : chunks[j] # <<>>
    /\ \A j \in 1..Len(result) : result[j] # <<>>

\* C5: when the call has returned, every call on the same text and maxTokens
\* with a smaller overlap that returns, returns at most as many chunks.
C5_OverlapMonotone ==
    pc = "chunk_returned" =>
        \A o1 \in 0..overlap :
            LET r == ChunkByMaxTokens(input, maxTokens, o1) IN
            ~r.thrown => Len(r.chunks) <= Len(result)

\* The number of characters of the input before the pair at position t.
Offset(t) == Len(Join([j \in 1..(t - 1) |-> counts[j].token]))

\* C6: when chunkByMaxTokens returns, every pair is in some chunk, every
\* returned string is the text of a contiguous run of pairs in reading order,
\* the last pair is in the last chunk, and with overlap = 0 every pair is in
\* exactly one chunk and the returned strings concatenate to the input.
C6_NoPairDropped ==
    pc = "chunk_returned" =>
        /\ \A t \in 1..Len(counts) : \E j \in 1..Len(chunks) : t \in Range(chunks[j])
        /\ \A j \in 1..Len(chunks) :
              /\ \A x \in 1..(Len(chunks[j]) - 1) : chunks[j][x + 1] = chunks[j][x] + 1
              /\ Len(result) = Len(chunks)
              /\ chunks[j] # <<>> =>
                    result[j] = SubSeq(input, Offset(chunks[j][1]) + 1,
                                       Offset(Last(chunks[j]) + 1))
        /\ Len(counts) > 0 =>
              /\ Len(chunks) > 0
              /\ Last(chunks) # <<>>
              /\ Last(Last(chunks)) = Len(counts)
        /\ overlap = 0 =>
              /\ \A t \in 1..Len(counts) :
                    Cardinality({j \in 1..Len(chunks) : t \in Range(chunks[j])}) = 1
              /\ Join(result) = input

\* A call with overlap > 0 has returned at least three chunks, one pair is in
\* two of them, and one pair alone exceeds maxTokens.
C6_Witness ==
    /\ pc = "chunk_returned" /\ overlap > 0 /\ Len(chunks) >= 3
    /\ \E t \in 1..Len(counts) :
          Cardinality({j \in 1..Len(chunks) : t \in Range(chunks[j])}) >= 2
    /\ \E t \in 1..Len(counts) : counts[t].count > maxTokens

\* C8: between iterations and at loop exit, the running sum is the sum of the
\* counts of the pairs in the running chunk.
C8_RunningSum == pc = "chunk_loop" => count = ChunkTotal(counts, chunk)

\* The sum of the counts of the last k pairs of a chunk.
TrailingTotal(ch, k) == ChunkTotal(counts, SubSeq(ch, Len(ch) - k + 1, Len(ch)))

\* The shortest trailing slice of ch that totals at least ov, or all of ch
\* when ch totals less.
ShortestTrailingSlice(ch, ov) ==
    IF ChunkTotal(counts, ch) < ov THEN ch
    ELSE LET k == CHOOSE k \in 0..Len(ch) :
                     /\ TrailingTotal(ch, k) >= ov
                     /\ \A k2 \in 0..(k - 1) : TrailingTotal(ch, k2) < ov
         IN  SubSeq(ch, Len(ch) - k + 1, Len(ch))

\* The pairs the running chunk was seeded with when closed was pushed: those
\* of the running chunk that are not after the last pair of closed.
SeedOf(closed) == SelectSeq(chunk, LAMBDA t : t <= Last(closed))

\* C9: after a non-empty chunk is closed with overlap > 0, the running chunk
\* is seeded with the shortest trailing slice of the closed chunk that totals
\* at least overlap, or with the whole closed chunk when it totals less.
C9_SeedIsShortestTrailingSlice ==
    pc = "chunk_loop" /\ overlap > 0 /\ Len(chunks) > 0 =>
        (Last(chunks) # <<>> =>
            SeedOf(Last(chunks)) = ShortestTrailingSlice(Last(chunks), overlap))

\* ------------------------------------------- approximateTokenChunks, stepwise
\* The characters the enumerated inputs of approximateTokenChunks are made
\* of: a letter, a digit, a space, a period, an exclamation mark, u-umlaut, a
\* CJK ideograph, a Greek letter (U+03B1) and an emoji (U+1F600).
EstimatorAlphabet ==
    {"a", "1", " ", ".", "!", "U+00FC", "U+4E2D", "U+03B1", "U+1F600"}

EstimatorInit ==
    /\ pc = "est_call"
    /\ input \in BoundedSeq(EstimatorAlphabet, MaxEstLen)
    /\ roughTokens = <<>> /\ tokenCounts = <<>>
    /\ ChunkerIdle /\ LookupIdle

\* const roughTokens = input.split(...).filter(Boolean); tokenCounts = []
EstCall ==
    /\ pc = "est_call"
    /\ roughTokens' = RoughTokens(input)
    /\ tokenCounts' = <<>>
    /\ pc' = "est_loop"
    /\ UNCHANGED <<chunkerVars, lookupVars>>

\* One iteration of the loop over roughTokens: the next token is counted and
\* pushed with its count.
EstToken ==
    /\ pc = "est_loop" /\ Len(tokenCounts) < Len(roughTokens)
    /\ LET token == roughTokens[Len(tokenCounts) + 1] IN
       tokenCounts' = Append(tokenCounts,
                             [token |-> token, count |-> TokenCountOf(token)])
    /\ UNCHANGED <<pc, roughTokens, chunkerVars, lookupVars>>

\* return tokenCounts
EstReturn ==
    /\ pc = "est_loop" /\ Len(tokenCounts) = Len(roughTokens)
    /\ pc' = "est_returned"
    /\ UNCHANGED <<roughTokens, tokenCounts, chunkerVars, lookupVars>>

EstimatorNext == EstCall \/ EstToken \/ EstReturn

SpecEstimator == EstimatorInit /\ [][EstimatorNext]_vars

\* ---------------------------------------------- claims on the token estimator
\* C2: approximateTokenChunks returns only non-empty substrings, and their
\* concatenation in the returned order is the input.
C2_Lossless ==
    pc = "est_returned" =>
        /\ \A j \in 1..Len(tokenCounts) : tokenCounts[j].token # <<>>
        /\ Join([j \in 1..Len(tokenCounts) |-> tokenCounts[j].token]) = input

\* A call has returned a whitespace run, a punctuation run and a run of other
\* characters, one of them longer than one character.
C2_Witness ==
    /\ pc = "est_returned"
    /\ \E j \in 1..Len(tokenCounts) : AllIn(tokenCounts[j].token, WhitespaceChars)
    /\ \E j \in 1..Len(tokenCounts) : AllIn(tokenCounts[j].token, PunctuationChars)
    /\ \E j \in 1..Len(tokenCounts) :
          ~ContainsAny(tokenCounts[j].token, WhitespaceChars \cup PunctuationChars)
    /\ \E j \in 1..Len(tokenCounts) : Len(tokenCounts[j].token) > 1

\* C7: every returned substring that is all punctuation and longer than 3
\* characters has count ceil(length / 2).
C7_PunctuationRunCount ==
    \A j \in 1..Len(tokenCounts) :
        LET token == tokenCounts[j].token IN
        AllIn(token, PunctuationChars) /\ Length(token) > 3
            => tokenCounts[j].count = Ceil(Length(token), 2)

\* ------------------------------------------------------- model context sizes
\* modelContextSizeMap: the entries, in insertion order.
ModelContextSizeMap ==
    << <<<<"g", "p", "t", "-", "3", ".", "5", "-", "t", "u", "r", "b", "o", "-", "1", "6", "k">>,
        16384>>,
      <<<<"g", "p", "t", "-", "3", ".", "5", "-", "t", "u", "r", "b", "o">>,
        4096>>,
      <<<<"g", "p", "t", "-", "4", "-", "1", "1", "0", "6", "-", "p", "r", "e", "v", "i", "e", "w">>,
        128000>>,
      <<<<"g", "p", "t", "-", "4", "-", "3", "2", "k">>,
        32768>>,
      <<<<"g", "p", "t", "-", "4">>,
        8192>>,
      <<<<"t", "e", "x", "t", "-", "d", "a", "v", "i", "n", "c", "i", "-", "0", "0", "3">>,
        4097>>,
      <<<<"t", "e", "x", "t", "-", "c", "u", "r", "i", "e", "-", "0", "0", "1">>,
        2048>>,
      <<<<"t", "e", "x", "t", "-", "b", "a", "b", "b", "a", "g", "e", "-", "0", "0", "1">>,
        2048>>,
      <<<<"t", "e", "x", "t", "-", "a", "d", "a", "-", "0", "0", "1">>,
        2048>>,
      <<<<"c", "o", "d", "e", "-", "d", "a", "v", "i", "n", "c", "i", "-", "0", "0", "2">>,
        8000>>,
      <<<<"c", "o", "d", "e", "-", "c", "u", "s", "h", "m", "a", "n", "-", "0", "0", "1">>,
        2048>> >>

DefaultContextSize == 4097

ModelKeys == {ModelContextSizeMap[j][1] : j \in 1..Len(ModelContextSizeMap)}

\* The names resolveModelName tests for and returns.
GPT35TURBO16K == <<"g", "p", "t", "-", "3", ".", "5", "-", "t", "u", "r", "b", "o", "-", "1", "6", "k">>
GPT35TURBO == <<"g", "p", "t", "-", "3", ".", "5", "-", "t", "u", "r", "b", "o">>
GPT432K == <<"g", "p", "t", "-", "4", "-", "3", "2", "k">>
GPT4 == <<"g", "p", "t", "-", "4">>

\* Map.prototype.get: the value of the entry with that key, or 0 (undefined).
MapGet(key) ==
    IF key \in ModelKeys
    THEN LET j == CHOOSE j \in 1..Len(ModelContextSizeMap) :
                      ModelContextSizeMap[j][1] = key
         IN  ModelContextSizeMap[j][2]
    ELSE 0

\* String.prototype.startsWith
StartsWith(str, prefix) ==
    Len(prefix) <= Len(str) /\ SubSeq(str, 1, Len(prefix)) = prefix

\* resolveModelName: the first prefix that matches decides.
ResolveModelName(name) ==
    IF StartsWith(name, GPT35TURBO16K)
        THEN GPT35TURBO16K
    ELSE IF StartsWith(name, GPT35TURBO \o <<"-">>)
        THEN GPT35TURBO
    ELSE IF StartsWith(name, GPT432K)
        THEN GPT432K
    ELSE IF StartsWith(name, GPT4 \o <<"-">>)
        THEN GPT4
    ELSE name

\* v ?? 4097
OrDefault(v) == IF v = 0 THEN DefaultContextSize ELSE v

\* The suffixes the enumerated model names carry after a key of the table:
\* none, a dash, a version ("-0613") and a letter.
NameSuffixes == {<<>>, <<"-">>, <<"-", "0", "6", "1", "3">>, <<"x">>}

\* The enumerated model names: every key of the table with every suffix, and
\* a name that has nothing to do with the table.
ModelNames ==
    {ModelContextSizeMap[j][1] \o suffix :
        j \in 1..Len(ModelContextSizeMap), suffix \in NameSuffixes}
    \cup {<<"l", "l", "a", "m", "a">>}

LookupInit ==
    /\ pc = "lookup_call"
    /\ modelName \in ModelNames
    /\ modelKey = <<>> /\ contextSize = 0
    /\ input = <<>> /\ ChunkerIdle /\ EstimatorIdle

\* const modelKey = resolveModelName(modelName)
LookupResolve ==
    /\ pc = "lookup_call"
    /\ modelKey' = ResolveModelName(modelName)
    /\ pc' = "lookup_resolved"
    /\ UNCHANGED <<modelName, contextSize, chunkerVars, estimatorVars>>

\* return modelContextSizeMap.get(modelKey) ?? 4097
LookupGet ==
    /\ pc = "lookup_resolved"
    /\ contextSize' = OrDefault(MapGet(modelKey))
    /\ pc' = "lookup_returned"
    /\ UNCHANGED <<modelName, modelKey, chunkerVars, estimatorVars>>

LookupNext == LookupResolve \/ LookupGet

SpecLookup == LookupInit /\ [][LookupNext]_vars

\* C10: a model name that is a key of the table gets the value the table
\* stores for that key, and a name that resolves to no key gets 4097.
C10_ListedModelGetsItsEntry ==
    pc = "lookup_returned" =>
        /\ modelName \in ModelKeys => contextSize = MapGet(modelName)
        /\ modelKey \notin ModelKeys => contextSize = DefaultContextSize

====
